---- MODULE Spec2Model ----
(***************************************************************************)
(* Multi-provider response resolution layer of the AI chat application:    *)
(* the provider registry (AIService), the provider fallback chains and    *)
(* the conversation orchestrator (the App component's handlers).          *)
(*                                                                         *)
(* Two versions of the registry are in the repository and both are        *)
(* modelled: the one the App imports (src/src/services/aiService.ts) and  *)
(* the one with guarded construction and fallback chains (part_002).      *)
(*                                                                         *)
(* A text is a sequence of tokens.  A prompt is a sequence of one         *)
(* character tokens, so that substring tests are computed; a canned       *)
(* response is a single opaque token.                                      *)
(***************************************************************************)
EXTENDS Integers, Sequences, FiniteSets, TLC

(***************************************************************************)
(* svc                    the aiService.ts the application is built with   *)
(* geminiKey, openaiKey, claudeKey                                         *)
(*                        whether VITE_GEMINI_API_KEY, VITE_OPENAI_API_KEY *)
(*                        and VITE_CLAUDE_API_KEY are set                  *)
(* constructed            whether new AIService() returned (App.tsx:40)    *)
(* providers              keys of AIService.providers, in insertion order  *)
(* persistHistory         settings.persistHistory                          *)
(* aiModel                settings.aiModel                                 *)
(* messages, isLoading, error                                              *)
(*                        chatState (App.tsx:17-21)                        *)
(* conversations, currentConversationId                                    *)
(*                        the sidebar list and the open conversation       *)
(* uuidCount              conversation ids handed out by uuidv4()          *)
(* sends                  one record per handleSendMessage invocation      *)
(* upserts                one record per saveCurrentConversation request   *)
(* stored                 the row of current_conversations                 *)
(* noop                   the last handler that returned without acting    *)
(* events                 user events so far                               *)
(***************************************************************************)
VARIABLES svc, geminiKey, openaiKey, claudeKey, constructed, providers,
          persistHistory,
          aiModel, messages, isLoading, error,
          conversations, currentConversationId, uuidCount,
          sends, upserts, stored, exported, noop, events

\* what is fixed when the application is built and started
build == <<svc, geminiKey, openaiKey, claudeKey, constructed, providers,
           persistHistory>>

vars == <<build, aiModel, messages, isLoading, error,
          conversations, currentConversationId, uuidCount,
          sends, upserts, stored, exported, noop, events>>

(***************************************************************************)
(* Bounds of the model.                                                    *)
(***************************************************************************)
\* number of user events (sends, regenerations, retries, sidebar and settings
\* actions) in a run
MaxEvents == 4

(***************************************************************************)
(* Texts.                                                                  *)
(***************************************************************************)
\* String.prototype.includes
Includes(text, kw) ==
    \E i \in 1..(Len(text) - Len(kw) + 1) : SubSeq(text, i, i + Len(kw) - 1) = kw

\* String.prototype.startsWith
StartsWith(text, prefix) ==
    /\ Len(prefix) <= Len(text)
    /\ SubSeq(text, 1, Len(prefix)) = prefix

\* String.prototype.toLowerCase, on the letters the prompts use
LowerChar(c) ==
    CASE c = "H" -> "h"
      [] c = "I" -> "i"
      [] OTHER -> c

toLowerCase(text) == [i \in 1..Len(text) |-> LowerChar(text[i])]

Digits == {"1", "2"}
Operators == {"+", "-", "*", "/"}

\* /\d+[\+\-\*\/]\d+/.test(message)
ArithmeticPattern(text) ==
    \E i \in 1..(Len(text) - 2) :
        /\ text[i] \in Digits
        /\ text[i + 1] \in Operators
        /\ text[i + 2] \in Digits

\* the prompts a user types
Prompts == { <<"H", "i">>, <<"h", "e", "l", "p">>, <<"1", "+", "2">>, <<"z">> }

\* String.prototype.trim: blanks are the token " "
RECURSIVE TrimLeft(_)
TrimLeft(text) ==
    IF text # <<>> /\ Head(text) = " " THEN TrimLeft(Tail(text)) ELSE text

RECURSIVE TrimRight(_)
TrimRight(text) ==
    IF text # <<>> /\ text[Len(text)] = " "
    THEN TrimRight(SubSeq(text, 1, Len(text) - 1))
    ELSE text

trim(text) == TrimRight(TrimLeft(text))

(***************************************************************************)
(* Outcomes of one network attempt (fetch, then response.json()).          *)
(*   transport : fetch rejects                                             *)
(*   http      : response.ok is false; payload is the vendor's            *)
(*               error.message, "none" when the JSON carries none,         *)
(*               "unparseable" when the body is not JSON                   *)
(*   badjson   : response.ok, response.json() rejects                      *)
(*   nofield   : response.ok, the JSON lacks the expected field            *)
(*   partial   : response.ok, the JSON has the checked levels of the       *)
(*               path but not the ones below them                          *)
(*   ok        : response.ok, the JSON carries the text gen                *)
(***************************************************************************)
Reply == <<"reply">>

VendorMessages ==
    { <<"API key not valid">>, <<"quota">>, <<"overloaded">> }

\* the body of a non-success response: JSON with error.message, JSON without
\* it, or a body that is not JSON
HttpBodies ==
    { [body |-> "message", message |-> m] : m \in VendorMessages }
    \cup { [body |-> "nomessage"], [body |-> "unparseable"] }

\* the text a success response carries: a reply, the prompt echoed before a
\* reply, or the prompt echoed alone
GeneratedKinds == {"reply", "echo_reply", "echo"}

GeneratedText(message, gen) ==
    CASE gen = "reply" -> Reply
      [] gen = "echo_reply" -> message \o <<" ">> \o Reply
      [] gen = "echo" -> message

Outcomes ==
    { [kind |-> "transport"], [kind |-> "badjson"],
      [kind |-> "nofield"], [kind |-> "partial"] }
    \cup { [kind |-> "http", payload |-> p] : p \in HttpBodies }
    \cup { [kind |-> "ok", gen |-> g] : g \in GeneratedKinds }

\* the outcomes after which an attempt has not produced a text
Failed(outcome) == outcome.kind # "ok"

(***************************************************************************)
(* Results of generateResponse.                                            *)
(***************************************************************************)
Pending == [status |-> "pending"]
Resolved(text) == [status |-> "resolved", text |-> text]
\* a rejection with an Error instance carrying message
Rejected(message) == [status |-> "rejected", isError |-> TRUE, message |-> message]

(***************************************************************************)
(* GeminiProvider (the same in both versions).                             *)
(***************************************************************************)
GeminiName == <<"Gemini 1.5 Flash">>

FailedToFetch == <<"Failed to fetch">>
SyntaxErrorMessage == <<"Unexpected token in JSON">>
TypeErrorMessage == <<"Cannot read properties of undefined">>
HttpStatusMessage == <<"HTTP error! status: ", "500">>
GeminiInvalidFormat == <<"Invalid response format from Gemini API">>

\* the message of the Error thrown inside the try block by an attempt that
\* does not return the text
GeminiThrown(outcome) ==
    CASE outcome.kind = "transport" -> FailedToFetch
      [] outcome.kind = "http" ->
            IF outcome.payload.body = "unparseable" THEN SyntaxErrorMessage
            ELSE IF outcome.payload.body = "nomessage" THEN HttpStatusMessage
            ELSE outcome.payload.message
      [] outcome.kind = "badjson" -> SyntaxErrorMessage
      [] outcome.kind = "nofield" -> GeminiInvalidFormat
      [] outcome.kind = "partial" -> TypeErrorMessage

\* the catch block with the test for 'quota' made first
GeminiRemapQuotaFirst(message) ==
    IF Includes(message, <<"quota">>)
    THEN <<"API quota exceeded. Please try again later.">>
    ELSE IF Includes(message, <<"API key not valid">>)
    THEN <<"Invalid API key. Please check your Gemini API key.">>
    ELSE IF Includes(message, <<"Failed to fetch">>)
    THEN <<"Network error. Please check your internet connection.">>
    ELSE message

\* the catch block: the first matching phrase decides the message
GeminiRemap(message) ==
    IF Includes(message, <<"API key not valid">>)
    THEN <<"Invalid API key. Please check your Gemini API key.">>
    ELSE IF Includes(message, <<"quota">>)
    THEN <<"API quota exceeded. Please try again later.">>
    ELSE IF Includes(message, <<"Failed to fetch">>)
    THEN <<"Network error. Please check your internet connection.">>
    ELSE message

GeminiGenerateResponse(message, outcome) ==
    IF outcome.kind = "ok"
    THEN Resolved(GeneratedText(message, outcome.gen))
    ELSE Rejected(GeminiRemap(GeminiThrown(outcome)))

(***************************************************************************)
(* The two versions of the service.                                        *)
(***************************************************************************)
\* src/src/services/aiService.ts: mock GPT and Claude, unguarded registry
SvcApp == "src/src/services/aiService.ts"
\* part_002: Hugging Face and Groq chains, guarded registry
SvcChains == "part_002"

Services == {SvcApp, SvcChains}

\* src/client/src/services/aiService.ts holds two modules one after the other.
\* The first: Hugging Face GPT, Anthropic Claude behind a key, guarded registry
SvcClientFree == "src/client/src/services/aiService.ts:1-257"
\* The second: OpenAI GPT and Anthropic Claude behind keys, guarded registry
SvcClientKeyed == "src/client/src/services/aiService.ts:258-507"

AllServices == Services \cup {SvcClientFree, SvcClientKeyed}

\* import.meta.env: which of the three keys are set
Env(gemini, openai, claude) == [gemini |-> gemini, openai |-> openai, claude |-> claude]

Keys == <<"gemini", "gpt", "claude">>

(***************************************************************************)
(* GPTProvider of part_002: Hugging Face, then the rule-based fallback.    *)
(***************************************************************************)
GPTGreeting == <<"Hello! How can I help you today?">>
GPTHelp == <<"I'm here to help! You can ask me questions about various topics, request explanations, or just chat.">>
GPTQuestion == <<"That's an interesting question! While I may not have all the answers, I'd be happy to discuss this topic with you.">>
GPTThanks == <<"You're welcome! Is there anything else I can help you with?">>
GPTGeneric == <<"I understand what you're saying. Could you tell me more about that or ask me something specific I can help with?">>
GPTRephrase == <<"I understand your message. Could you please rephrase or ask something else?">>

\* generateFallbackResponse with the check for 'help' made first
generateFallbackResponseHelpFirst(message) ==
    LET lowerMessage == toLowerCase(message) IN
    IF Includes(lowerMessage, <<"h","e","l","p">>)
    THEN GPTHelp
    ELSE IF Includes(lowerMessage, <<"h","e","l","l","o">>) \/ Includes(lowerMessage, <<"h","i">>)
    THEN GPTGreeting
    ELSE IF \/ Includes(lowerMessage, <<"w","h","a","t">>)
            \/ Includes(lowerMessage, <<"h","o","w">>)
            \/ Includes(lowerMessage, <<"w","h","y">>)
    THEN GPTQuestion
    ELSE IF Includes(lowerMessage, <<"t","h","a","n","k">>)
    THEN GPTThanks
    ELSE GPTGeneric

generateFallbackResponse(message) ==
    LET lowerMessage == toLowerCase(message) IN
    IF Includes(lowerMessage, <<"h","e","l","l","o">>) \/ Includes(lowerMessage, <<"h","i">>)
    THEN GPTGreeting
    ELSE IF Includes(lowerMessage, <<"h","e","l","p">>)
    THEN GPTHelp
    ELSE IF \/ Includes(lowerMessage, <<"w","h","a","t">>)
            \/ Includes(lowerMessage, <<"h","o","w">>)
            \/ Includes(lowerMessage, <<"w","h","y">>)
    THEN GPTQuestion
    ELSE IF Includes(lowerMessage, <<"t","h","a","n","k">>)
    THEN GPTThanks
    ELSE GPTGeneric

\* the generated text with the echoed prompt removed
StripPrompt(message, generated) ==
    IF StartsWith(generated, message)
    THEN trim(SubSeq(generated, Len(message) + 1, Len(generated)))
    ELSE generated

\* One step of a chain: the result of generateResponse so far, the strategy
\* whose request is now outstanding ("done" when there is none) and the
\* strategies begun by this step.
Step(result, next, began) == [result |-> result, next |-> next, began |-> began]

GPTHuggingFaceStep(message, outcome) ==
    IF outcome.kind = "ok"
    THEN IF StripPrompt(message, GeneratedText(message, outcome.gen)) # <<>>
         THEN Step(Resolved(StripPrompt(message, GeneratedText(message, outcome.gen))),
                   "done", <<>>)
         ELSE Step(Resolved(GPTRephrase), "done", <<>>)
    ELSE Step(Resolved(generateFallbackResponse(message)), "done", <<"rule">>)

(***************************************************************************)
(* ClaudeProvider of part_002: Groq, then Hugging Face, then rule-based.   *)
(***************************************************************************)
SmartProgramming == <<"I can help with programming questions! Could you be more specific about what you'd like to build or debug?">>
SmartMath == <<"I can help with calculations and math problems. Please provide the specific equation or problem you'd like me to solve.">>
SmartExplain == <<"I'd be happy to explain that concept! Could you give me a bit more context about what specific aspect you'd like me to focus on?">>
SmartCreative == <<"I can help with creative writing! What kind of story, article, or content would you like me to help you create?">>
SmartGeneric == <<"I understand your message. While I may not have a complete response right now, I'm here to help with various topics including programming, explanations, creative writing, and problem-solving. Could you tell me more about what you need assistance with?">>

generateSmartFallback(message) ==
    LET lowerMessage == toLowerCase(message) IN
    IF \/ Includes(lowerMessage, <<"c","o","d","e">>)
       \/ Includes(lowerMessage, <<"p","r","o","g","r","a","m">>)
       \/ Includes(lowerMessage, <<"f","u","n","c","t","i","o","n">>)
    THEN SmartProgramming
    ELSE IF \/ Includes(lowerMessage, <<"c","a","l","c","u","l","a","t","e">>)
            \/ Includes(lowerMessage, <<"m","a","t","h">>)
            \/ ArithmeticPattern(message)
    THEN SmartMath
    ELSE IF \/ Includes(lowerMessage, <<"e","x","p","l","a","i","n">>)
            \/ Includes(lowerMessage, <<"w","h","a","t"," ","i","s">>)
            \/ Includes(lowerMessage, <<"h","o","w"," ","d","o","e","s">>)
    THEN SmartExplain
    ELSE IF \/ Includes(lowerMessage, <<"w","r","i","t","e">>)
            \/ Includes(lowerMessage, <<"s","t","o","r","y">>)
            \/ Includes(lowerMessage, <<"c","r","e","a","t","i","v","e">>)
    THEN SmartCreative
    ELSE SmartGeneric

\* ClaudeGroqStep with a non-success status thrown past the fallback
ClaudeGroqStepThrowing(message, outcome) ==
    IF outcome.kind = "ok"
    THEN Step(Resolved(GeneratedText(message, outcome.gen)), "done", <<>>)
    ELSE IF outcome.kind = "http"
    THEN Step(Rejected(HttpStatusMessage), "done", <<>>)
    ELSE Step(Pending, "hf", <<"hf">>)

\* ClaudeGroqStep going on to Hugging Face whatever Groq answered
ClaudeGroqStepContinuing(message, outcome) == Step(Pending, "hf", <<"hf">>)

\* generateResponse up to its return or its call of generateHuggingFaceResponse
ClaudeGroqStep(message, outcome) ==
    IF outcome.kind = "ok"
    THEN Step(Resolved(GeneratedText(message, outcome.gen)), "done", <<>>)
    ELSE Step(Pending, "hf", <<"hf">>)

\* generateHuggingFaceResponse without its catch block
generateHuggingFaceResponseNoCatch(message, outcome) ==
    IF outcome.kind = "ok" /\ StripPrompt(message, GeneratedText(message, outcome.gen)) # <<>>
    THEN Step(Resolved(StripPrompt(message, GeneratedText(message, outcome.gen))),
              "done", <<>>)
    ELSE IF outcome.kind = "transport"
    THEN Step(Rejected(FailedToFetch), "done", <<>>)
    ELSE IF outcome.kind = "badjson"
    THEN Step(Rejected(SyntaxErrorMessage), "done", <<>>)
    ELSE Step(Resolved(generateSmartFallback(message)), "done", <<"rule">>)

generateHuggingFaceResponse(message, outcome) ==
    IF outcome.kind = "ok" /\ StripPrompt(message, GeneratedText(message, outcome.gen)) # <<>>
    THEN Step(Resolved(StripPrompt(message, GeneratedText(message, outcome.gen))),
              "done", <<>>)
    ELSE Step(Resolved(generateSmartFallback(message)), "done", <<"rule">>)

(***************************************************************************)
(* The keyed providers of src/client/src/services/aiService.ts.            *)
(***************************************************************************)
\* the JavaScript value undefined where a text is expected
UndefinedText == <<"undefined">>

OpenAIInvalidFormat == <<"Invalid response format from OpenAI API">>
ClaudeInvalidFormat == <<"Invalid response format from Claude API">>

\* `errorData.error?.message || HTTP error! status` and the failures of fetch
\* and response.json(), the same in every keyed provider
HttpThrown(outcome) ==
    CASE outcome.kind = "transport" -> FailedToFetch
      [] outcome.kind = "http" ->
            IF outcome.payload.body = "unparseable" THEN SyntaxErrorMessage
            ELSE IF outcome.payload.body = "nomessage" THEN HttpStatusMessage
            ELSE outcome.payload.message
      [] outcome.kind = "badjson" -> SyntaxErrorMessage

OpenAIRemap(message) ==
    IF Includes(message, <<"Incorrect API key">>)
    THEN <<"Invalid OpenAI API key. Please check your API key.">>
    ELSE IF Includes(message, <<"quota">>)
    THEN <<"OpenAI API quota exceeded. Please try again later.">>
    ELSE message

\* data.choices[0].message is checked, its content is not: a payload without
\* it resolves with undefined
OpenAIGenerateResponse(message, outcome) ==
    CASE outcome.kind = "ok" -> Resolved(GeneratedText(message, outcome.gen))
      [] outcome.kind = "partial" -> Resolved(UndefinedText)
      [] outcome.kind = "nofield" -> Rejected(OpenAIRemap(OpenAIInvalidFormat))
      [] OTHER -> Rejected(OpenAIRemap(HttpThrown(outcome)))

AnthropicRemap(message) ==
    IF Includes(message, <<"authentication">>)
    THEN <<"Invalid Claude API key. Please check your API key.">>
    ELSE IF Includes(message, <<"rate_limit">>)
    THEN <<"Claude API rate limit exceeded. Please try again later.">>
    ELSE message

\* every level of data.content[0].text is checked
AnthropicGenerateResponse(message, outcome) ==
    CASE outcome.kind = "ok" -> Resolved(GeneratedText(message, outcome.gen))
      [] outcome.kind \in {"nofield", "partial"} ->
            Rejected(AnthropicRemap(ClaudeInvalidFormat))
      [] OTHER -> Rejected(AnthropicRemap(HttpThrown(outcome)))

(***************************************************************************)
(* The mock providers of src/src/services/aiService.ts.                    *)
(***************************************************************************)
MockGPTResponse(message) ==
    <<"GPT-4 Response: This is a simulated response to \"">> \o message
        \o <<"\". To use real GPT-4, implement OpenAI API integration.">>

MockClaudeResponse(message) ==
    <<"Claude 3 Response: This is a simulated response to \"">> \o message
        \o <<"\". To use real Claude, implement Anthropic API integration.">>

(***************************************************************************)
(* The providers behind the AIProvider interface.                          *)
(***************************************************************************)
getName(service, key) ==
    CASE key = "gemini" -> GeminiName
      [] key = "gpt" ->
            IF service \in {SvcChains, SvcClientFree}
            THEN <<"DialoGPT Large (Free)">> ELSE <<"GPT-4">>
      [] key = "claude" ->
            IF service = SvcChains THEN <<"Llama 3 (Advanced Free)">> ELSE <<"Claude 3">>

\* the strategies of a provider, in the order its code tries them
Strategies(service, key) ==
    CASE key = "gemini" -> <<"gemini">>
      [] key = "gpt" ->
            IF service \in {SvcChains, SvcClientFree} THEN <<"hf", "rule">>
            ELSE IF service = SvcClientKeyed THEN <<"openai">>
            ELSE <<"timer">>
      [] key = "claude" ->
            IF service = SvcChains THEN <<"groq", "hf", "rule">>
            ELSE IF service \in {SvcClientFree, SvcClientKeyed} THEN <<"anthropic">>
            ELSE <<"timer">>

\* the strategies that await a network round trip
NetworkStrategies == {"gemini", "groq", "hf", "openai", "anthropic"}

\* generateResponse resumed with the outcome of the attempt it awaits
ProviderStep(service, key, stage, message, outcome) ==
    CASE key = "gemini" ->
            Step(GeminiGenerateResponse(message, outcome), "done", <<>>)
      [] key = "gpt" /\ service \in {SvcChains, SvcClientFree} ->
            GPTHuggingFaceStep(message, outcome)
      [] key = "gpt" /\ service = SvcClientKeyed ->
            Step(OpenAIGenerateResponse(message, outcome), "done", <<>>)
      [] key = "claude" /\ service \in {SvcClientFree, SvcClientKeyed} ->
            Step(AnthropicGenerateResponse(message, outcome), "done", <<>>)
      [] key = "gpt" /\ service = SvcApp ->
            Step(Resolved(MockGPTResponse(message)), "done", <<>>)
      [] key = "claude" /\ service = SvcChains ->
            IF stage = "groq"
            THEN ClaudeGroqStep(message, outcome)
            ELSE generateHuggingFaceResponse(message, outcome)
      [] key = "claude" /\ service = SvcApp ->
            Step(Resolved(MockClaudeResponse(message)), "done", <<>>)

(***************************************************************************)
(* The registry, AIService.                                                *)
(***************************************************************************)
\* whether new XProvider() throws: a provider that reads a key throws when
\* the key is not set
ProviderConstructorThrows(service, key, env) ==
    CASE key = "gemini" -> ~env.gemini
      [] key = "gpt" -> service = SvcClientKeyed /\ ~env.openai
      [] key = "claude" -> service \in {SvcClientFree, SvcClientKeyed} /\ ~env.claude

\* a constructor that registers every provider whether or not it was built
RegistrationOfAll(service, keys, env) == keys

\* the keys of the providers Map in insertion order, after a constructor
\* that catches each provider's failure
RECURSIVE GuardedRegistration(_, _, _)
GuardedRegistration(service, keys, env) ==
    IF keys = <<>> THEN <<>>
    ELSE IF ProviderConstructorThrows(service, Head(keys), env)
         THEN GuardedRegistration(service, Tail(keys), env)
         ELSE <<Head(keys)>> \o GuardedRegistration(service, Tail(keys), env)

\* new AIService(): whether it threw, and the providers Map it built
AIServiceConstructor(service, env) ==
    IF service # SvcApp
    THEN [threw |-> FALSE, providers |-> GuardedRegistration(service, Keys, env)]
    ELSE IF \E i \in 1..Len(Keys) : ProviderConstructorThrows(service, Keys[i], env)
         THEN [threw |-> TRUE, providers |-> <<>>]
         ELSE [threw |-> FALSE, providers |-> Keys]

Has(registry, model) == \E i \in 1..Len(registry) : registry[i] = model

\* NotAvailableMessage without the requested key
NotAvailableMessageNoKey(service, model) ==
    <<"AI model not available. Please check your API keys.">>

NotAvailableMessage(service, model) ==
    IF service # SvcApp
    THEN <<"AI model \"", model, "\" not available. Please check your API keys.">>
    ELSE <<"AI model \"", model, "\" not supported">>

\* getProvider without its check of the lookup
getProviderUnchecked(service, registry, model) ==
    [threw |-> FALSE, provider |-> model]

\* getProvider: the provider registered under model, or the Error thrown
getProvider(service, registry, model) ==
    IF Has(registry, model)
    THEN [threw |-> FALSE, provider |-> model]
    ELSE [threw |-> TRUE, message |-> NotAvailableMessage(service, model)]

\* the keys in alphabetical order
SortedKeys == <<"claude", "gemini", "gpt">>

RECURSIVE KeysAmong(_, _)
KeysAmong(keys, registry) ==
    IF keys = <<>> THEN <<>>
    ELSE IF \E i \in 1..Len(registry) : registry[i] = Head(keys)
         THEN <<Head(keys)>> \o KeysAmong(Tail(keys), registry)
         ELSE KeysAmong(Tail(keys), registry)

\* getAvailableModels listing the keys sorted instead of in insertion order
getAvailableModelsSorted(service, registry) ==
    [i \in 1..Len(registry) |->
        [key |-> KeysAmong(SortedKeys, registry)[i],
         name |-> getName(service, KeysAmong(SortedKeys, registry)[i])]]

getAvailableModels(service, registry) ==
    [i \in 1..Len(registry) |-> [key |-> registry[i], name |-> getName(service, registry[i])]]

(***************************************************************************)
(* The App component: chat state, settings, conversations.                 *)
(***************************************************************************)
\* chatState.error: null, or a string
NullError == [null |-> TRUE]
ErrorOf(message) == [null |-> FALSE, message |-> message]

\* currentConversationId: null
NoConversation == 0

\* a Message; model is absent (NoModel) on user messages
NoModel == <<>>
Message(id, type, text, model) == [id |-> id, type |-> type, text |-> text, model |-> model]

WelcomeText == <<"Hello! I'm your AI assistant with multi-model support.">>

\* addWelcomeMessage: its model field is settings.aiModel
WelcomeMessage(model) == Message(0, "ai", WelcomeText, <<model>>)

\* the ids uuidv4() gives the two messages of the n-th send
UserMessageId(n) == 2 * n - 1
AiMessageId(n) == 2 * n

\* the send records: the handler that called handleSendMessage (origin), the
\* length of the history when that handler was invoked (base), the text and
\* the provider key passed on, the strategy whose request is outstanding
\* ("done" when none is), the strategies begun, the result of
\* generateResponse and the outcome of the send
NotCalled == [status |-> "notcalled"]

Outstanding(send) == send.stage # "done"

InFlight == { i \in 1..Len(sends) : Outstanding(sends[i]) }

\* messages.slice().reverse().find(msg => msg.type === 'user')
HasUserMessage(msgs) == \E i \in 1..Len(msgs) : msgs[i].type = "user"

\* the search for the user message run from the start of the history
LastUserMessageUnreversed(msgs) ==
    msgs[CHOOSE i \in 1..Len(msgs) :
            /\ msgs[i].type = "user"
            /\ \A j \in 1..(i - 1) : msgs[j].type # "user"]

LastUserMessage(msgs) ==
    msgs[CHOOSE i \in 1..Len(msgs) :
            /\ msgs[i].type = "user"
            /\ \A j \in (i + 1)..Len(msgs) : msgs[j].type # "user"]

\* messages.find(m => m.type === 'user')
FirstUserMessage(msgs) ==
    msgs[CHOOSE i \in 1..Len(msgs) :
            /\ msgs[i].type = "user"
            /\ \A j \in 1..(i - 1) : msgs[j].type # "user"]

\* the length a title is cut to
TitleLimit == 30

\* the title taken from the most recent user message
generateConversationTitleFromLast(msgs) ==
    IF HasUserMessage(msgs)
    THEN IF Len(LastUserMessage(msgs).text) > TitleLimit
         THEN SubSeq(LastUserMessage(msgs).text, 1, TitleLimit) \o <<"...">>
         ELSE LastUserMessage(msgs).text
    ELSE <<"New Conversation">>

generateConversationTitle(msgs) ==
    IF HasUserMessage(msgs)
    THEN IF Len(FirstUserMessage(msgs).text) > TitleLimit
         THEN SubSeq(FirstUserMessage(msgs).text, 1, TitleLimit) \o <<"...">>
         ELSE FirstUserMessage(msgs).text
    ELSE <<"New Conversation">>

\* the catch block of handleSendMessage: the error string it stores
FailedToGetResponse == <<"Failed to get AI response">>

\* the catch block storing the generic string whatever was thrown
SendCatchMessageGeneric(thrown) == FailedToGetResponse

SendCatchMessage(thrown) ==
    IF thrown.isError THEN thrown.message ELSE FailedToGetResponse

\* the values a catch block can receive: an Error, or any other value
Thrown(message) == [isError |-> TRUE, message |-> message]
NonErrorThrown == [isError |-> FALSE]

\* ChatInput is handed isLoading and lets the user send while it is false
ChatInputEnabled == ~isLoading

(***************************************************************************)
(* Attachments and the contextual message.                                 *)
(***************************************************************************)
\* Attachment.content: undefined, or a string
NoContent == [defined |-> FALSE]
Content(text) == [defined |-> TRUE, text |-> text]

Attachment(name, type, content) == [name |-> name, type |-> type, content |-> content]

\* attachments undefined, or an empty array
NoAttachments == <<>>

\* att.content as a condition: a string that is not empty
Truthy(content) == content.defined /\ content.text # <<>>

\* the condition without its test of the type
InlinedWhateverType(att) == Truthy(att.content)

\* att.content && att.type.startsWith('text/')
Inlined(att) == Truthy(att.content) /\ StartsWith(att.type, <<"text/">>)

\* the block the map callback returns for one attachment
AttachmentBlock(att) ==
    IF Inlined(att)
    THEN <<"File \"", att.name, "\" content:\n">> \o att.content.text
    ELSE <<"File attached: ", att.name, " (">> \o att.type \o <<")">>

\* blocks.join(separator)
RECURSIVE Join(_, _)
Join(blocks, separator) ==
    IF blocks = <<>> THEN <<>>
    ELSE IF Len(blocks) = 1 THEN Head(blocks)
    ELSE Head(blocks) \o separator \o Join(Tail(blocks), separator)

BlankLine == <<"\n\n">>
AttachedFilesHeader == <<"\n\nAttached files:\n">>

AttachmentContext(attachments) ==
    Join([k \in 1..Len(attachments) |-> AttachmentBlock(attachments[k])], BlankLine)

\* the contextual message with the attachment context put before the prompt
ContextualMessageContextFirst(messageText, attachments) ==
    IF Len(attachments) > 0
    THEN AttachmentContext(attachments) \o AttachedFilesHeader \o messageText
    ELSE messageText

\* the text handed to generateResponse
ContextualMessage(messageText, attachments) ==
    IF Len(attachments) > 0
    THEN messageText \o AttachedFilesHeader \o AttachmentContext(attachments)
    ELSE messageText

(***************************************************************************)
(* The export: the snapshot handed to JSON.stringify, and what JSON.parse  *)
(* makes of the text.  A Date is a value of its own kind; JSON has no      *)
(* dates, a Date is written as the string its toJSON returns.              *)
(***************************************************************************)
\* new Date(time)
Date(time) == [kind |-> "Date", time |-> time]

\* the string date.toISOString() returns
toISOString(date) == [kind |-> "string", iso |-> date.time]

\* a Message as the code builds it, timestamp: new Date()
TimedMessage(message, time) ==
    [id |-> message.id, type |-> message.type, text |-> message.text,
     model |-> message.model, timestamp |-> Date(time)]

\* Date.prototype.toJSON
toJSON(date) == toISOString(date)

\* a string written as a JSON string literal, and the literal read
StringLiteral(string) == [json |-> "string", literal |-> string.iso]
StringOf(node) == [kind |-> "string", iso |-> node.literal]

\* JSON.stringify on a Message or a Conversation: the own properties, each
\* Date by the literal of its toJSON
StringifyMessage(m) ==
    [id |-> m.id, type |-> m.type, text |-> m.text, model |-> m.model,
     timestamp |-> StringLiteral(toJSON(m.timestamp))]

StringifyConversation(c) ==
    [id |-> c.id, title |-> c.title,
     messages |-> [k \in 1..Len(c.messages) |-> StringifyMessage(c.messages[k])],
     createdAt |-> StringLiteral(toJSON(c.createdAt)),
     updatedAt |-> StringLiteral(toJSON(c.updatedAt))]

\* JSON.parse on the text of a Message or a Conversation
ParseMessage(m) ==
    [id |-> m.id, type |-> m.type, text |-> m.text, model |-> m.model,
     timestamp |-> StringOf(m.timestamp)]

ParseConversation(c) ==
    [id |-> c.id, title |-> c.title,
     messages |-> [k \in 1..Len(c.messages) |-> ParseMessage(c.messages[k])],
     createdAt |-> StringOf(c.createdAt),
     updatedAt |-> StringOf(c.updatedAt)]

\* JSON.stringify(data, null, 2): the document of the text
JSONStringify(data) ==
    [conversations |-> [k \in 1..Len(data.conversations) |->
                           StringifyConversation(data.conversations[k])],
     settings |-> data.settings,
     exportDate |-> StringLiteral(data.exportDate)]

\* JSON.parse(text) without a reviver: every string literal of the document
\* is a string of the value
JSONParse(document) ==
    [conversations |-> [k \in 1..Len(document.conversations) |->
                           ParseConversation(document.conversations[k])],
     settings |-> document.settings,
     exportDate |-> StringOf(document.exportDate)]

\* nothing was downloaded
NoExport == [present |-> FALSE]

\* the settings object, in the fields the model keeps
Settings == [aiModel |-> aiModel, persistHistory |-> persistHistory]

\* handleExportData at the time now
HandleExportData(now) ==
    /\ constructed
    /\ exported' = [present |-> TRUE,
                    text |-> JSONStringify([conversations |-> conversations,
                                            settings |-> Settings,
                                            exportDate |-> toISOString(Date(now))])]
    /\ UNCHANGED <<build, aiModel, messages, isLoading, error, conversations,
                   currentConversationId, uuidCount, sends, upserts, stored,
                   noop, events>>

(***************************************************************************)
(* Persistence of the current conversation: the effect of the App and the  *)
(* upsert of DatabaseService.saveCurrentConversation.                      *)
(***************************************************************************)
\* the row of current_conversations: none, or the messages last written
NoRow == [present |-> FALSE]
Row(msgs) == [present |-> TRUE, messages |-> msgs]

\* a saveCurrentConversation request with its buffer: sent, applied or failed
Upsert(msgs) == [messages |-> msgs, status |-> "sent"]

\* the effect run after a render that holds a new messages array
SaveCurrentConversationEffect ==
    /\ upserts' = IF persistHistory /\ Len(messages') > 0
                  THEN Append(upserts, Upsert(messages'))
                  ELSE upserts
    /\ UNCHANGED stored

\* a render with the messages array of the render before it
SameMessagesArray == UNCHANGED <<upserts, stored>>

\* the upsert of the k-th request reaches the table: the awaited call returns
\* without an error
UpsertApplied(k) ==
    /\ k \in 1..Len(upserts)
    /\ upserts[k].status = "sent"
    /\ upserts' = [upserts EXCEPT ![k].status = "applied"]
    /\ stored' = Row(upserts[k].messages)

\* the awaited call returns an error and saveCurrentConversation throws; the
\* table is as it was
UpsertFails(k) ==
    /\ k \in 1..Len(upserts)
    /\ upserts[k].status = "sent"
    /\ upserts' = [upserts EXCEPT ![k].status = "failed"]
    /\ UNCHANGED stored

\* the environment the application is started in
Environment == Env(geminiKey, openaiKey, claudeKey)

\* the state after the first render and the mount effect; a render in which
\* new AIService() throws mounts nothing
StartedWith(loadedConversations) ==
    /\ constructed = ~AIServiceConstructor(svc, Environment).threw
    /\ providers = AIServiceConstructor(svc, Environment).providers
    /\ aiModel = "gemini"
    /\ messages = IF AIServiceConstructor(svc, Environment).threw
                  THEN <<>>
                  ELSE <<WelcomeMessage("gemini")>>
    /\ isLoading = FALSE
    /\ error = NullError
    /\ conversations = loadedConversations
    /\ currentConversationId = NoConversation
    /\ uuidCount = Len(loadedConversations)
    /\ sends = <<>>
    /\ upserts = IF persistHistory /\ Len(messages) > 0
                 THEN <<Upsert(messages)>>
                 ELSE <<>>
    /\ stored = NoRow
    /\ exported = NoExport
    /\ noop = "none"
    /\ events = 0

\* the application started with nothing in storage
Started == StartedWith(<<>>)

\* the application of src/src/App.tsx: the two versions of its service, the
\* keys they do not read unset, history persistence switched off
Init ==
    /\ svc \in Services
    /\ geminiKey \in BOOLEAN
    /\ openaiKey = FALSE
    /\ claudeKey = FALSE
    /\ persistHistory = FALSE
    /\ Started

\* one more event of the user
UserActs ==
    /\ events < MaxEvents
    /\ events' = events + 1

\* the slice that drops the last exchange
WithoutLastTwo(msgs) == SubSeq(msgs, 1, Len(msgs) - 2)

\* prev.messages.slice(0, -1)
WithoutLast(msgs) == SubSeq(msgs, 1, Len(msgs) - 1)

\* handleSendMessage(messageText, attachments) up to its first await, run on
\* the message sequence msgs: the user message is appended, the provider is
\* resolved and either generateResponse issues its first request or the catch
\* block runs
HandleSendMessage(msgs, messageText, attachments, origin) ==
    LET n == Len(sends) + 1
        userMessage == Message(UserMessageId(n), "user", messageText, NoModel)
        resolved == getProvider(svc, providers, aiModel)
        send == [origin |-> origin, base |-> Len(messages),
                 prompt |-> messageText, attachments |-> attachments,
                 text |-> ContextualMessage(messageText, attachments),
                 key |-> aiModel]
    IN  /\ UserActs
        /\ messages' = Append(msgs, userMessage)
        /\ IF resolved.threw
           THEN /\ isLoading' = FALSE
                /\ error' = ErrorOf(SendCatchMessage(Thrown(resolved.message)))
                /\ sends' = Append(sends,
                      send @@ [stage |-> "done",
                               attempts |-> <<>>, result |-> NotCalled,
                               outcome |-> "failure"])
           ELSE /\ isLoading' = TRUE
                /\ error' = NullError
                /\ sends' = Append(sends,
                      send @@ [stage |-> Head(Strategies(svc, aiModel)),
                               attempts |-> <<Head(Strategies(svc, aiModel))>>,
                               result |-> Pending, outcome |-> "pending"])
        /\ SaveCurrentConversationEffect
        /\ UNCHANGED <<build, exported, aiModel,
                       conversations, currentConversationId, uuidCount, noop>>

\* the user sends a prompt with attachments from the chat input
ChatInputSendAttached(messageText, attachments) ==
    /\ constructed
    /\ ChatInputEnabled
    /\ HandleSendMessage(messages, messageText, attachments, "input")

\* the user sends a prompt from the chat input
ChatInputSend(messageText) == ChatInputSendAttached(messageText, NoAttachments)

\* a handler that finds no user message and returns
ReturnsWithoutActing(handler) ==
    /\ UserActs
    /\ noop' = handler
    /\ UNCHANGED <<build, exported, aiModel, messages, isLoading, error, conversations,
                   currentConversationId, uuidCount, sends, upserts, stored>>

\* handleRegenerate with the last message removed before the user message
\* is looked for
RegenerateUnguarded ==
    /\ constructed
    /\ messages # <<>>
    /\ messages[Len(messages)].type = "ai"
    /\ IF HasUserMessage(messages)
       THEN HandleSendMessage(WithoutLast(messages),
                              LastUserMessage(messages).text, NoAttachments,
                              "regenerate")
       ELSE /\ UserActs
            /\ messages' = WithoutLast(messages)
            /\ error' = NullError
            /\ noop' = "regenerate"
            /\ SaveCurrentConversationEffect
            /\ UNCHANGED <<build, exported, aiModel, isLoading, conversations,
                           currentConversationId, uuidCount, sends>>

\* handleRegenerate
HandleRegenerate ==
    /\ constructed
    /\ IF HasUserMessage(messages)
       THEN HandleSendMessage(WithoutLast(messages),
                              LastUserMessage(messages).text, NoAttachments,
                              "regenerate")
       ELSE ReturnsWithoutActing("regenerate")

\* handleRegenerate, offered on the last message when it is an ai message
Regenerate ==
    /\ messages # <<>>
    /\ messages[Len(messages)].type = "ai"
    /\ HandleRegenerate

\* handleRetry, offered by the error message
Retry ==
    /\ constructed
    /\ ~error.null
    /\ IF HasUserMessage(messages)
       THEN HandleSendMessage(messages, LastUserMessage(messages).text,
                              NoAttachments, "retry")
       ELSE ReturnsWithoutActing("retry")

\* handleSendMessage resumed when generateResponse settles
Settle(i, step) ==
    /\ sends' = [sends EXCEPT ![i] =
            [@ EXCEPT !.stage = "done",
                      !.attempts = @ \o step.began,
                      !.result = step.result,
                      !.outcome = IF step.result.status = "resolved"
                                  THEN "success" ELSE "failure"]]
    /\ isLoading' = FALSE
    /\ IF step.result.status = "resolved"
       THEN /\ messages' = Append(messages,
                  Message(AiMessageId(i), "ai", step.result.text,
                          getName(svc, sends[i].key)))
            /\ UNCHANGED error
            /\ SaveCurrentConversationEffect
       ELSE /\ error' = ErrorOf(SendCatchMessage(step.result))
            /\ UNCHANGED messages
            /\ SameMessagesArray

\* the outstanding network attempt of send i completes with outcome
AttemptCompletes(i, outcome) ==
    LET step == ProviderStep(svc, sends[i].key, sends[i].stage, sends[i].text, outcome)
    IN  /\ sends[i].stage \in NetworkStrategies
        /\ IF step.result.status = "pending"
           THEN /\ sends' = [sends EXCEPT ![i] =
                        [@ EXCEPT !.stage = step.next,
                                  !.attempts = @ \o step.began]]
                /\ UNCHANGED <<messages, isLoading, error, upserts, stored>>
           ELSE Settle(i, step)
        /\ UNCHANGED <<build, exported, aiModel,
                       conversations, currentConversationId, uuidCount,
                       noop, events>>

\* the timer of a mock provider fires
TimerFires(i) ==
    /\ sends[i].stage = "timer"
    /\ Settle(i, ProviderStep(svc, sends[i].key, sends[i].stage, sends[i].text,
                              [kind |-> "timer"]))
    /\ UNCHANGED <<build, exported, aiModel,
                   conversations, currentConversationId, uuidCount, noop,
                   events>>

\* a Conversation of the sidebar list
Conversation(id, msgs) ==
    [id |-> id, title |-> generateConversationTitle(msgs), messages |-> msgs]

HasConversation(list, id) == \E i \in 1..Len(list) : list[i].id = id

\* an updater that prepends the conversation whether or not its id is listed
SaveInListPrepending(list, conversation) == <<conversation>> \o list

\* the updater of setConversations in handleNewConversation: replace the entry
\* with the conversation's id, or prepend the conversation
SaveInList(list, conversation) ==
    IF HasConversation(list, conversation.id)
    THEN [i \in 1..Len(list) |->
            IF list[i].id = conversation.id THEN conversation ELSE list[i]]
    ELSE <<conversation>> \o list

\* prev.filter(c => c.id !== conversationId)
RECURSIVE FilterOut(_, _)
FilterOut(list, id) ==
    IF list = <<>> THEN <<>>
    ELSE IF Head(list).id = id
         THEN FilterOut(Tail(list), id)
         ELSE <<Head(list)>> \o FilterOut(Tail(list), id)

\* handleNewConversation, its setConversations updater applied to list
StartNewConversation(list) ==
    LET fresh == currentConversationId = NoConversation
        id == IF fresh THEN uuidCount + 1 ELSE currentConversationId
    IN  /\ IF messages # <<>>
           THEN /\ conversations' = SaveInList(list, Conversation(id, messages))
                /\ uuidCount' = IF fresh THEN uuidCount + 1 ELSE uuidCount
           ELSE /\ conversations' = list
                /\ UNCHANGED uuidCount
        /\ messages' = <<WelcomeMessage(aiModel)>>
        /\ isLoading' = FALSE
        /\ error' = NullError
        /\ currentConversationId' = NoConversation
        /\ UserActs
        /\ SaveCurrentConversationEffect
        /\ UNCHANGED <<build, exported, aiModel, sends, noop>>

NewConversation ==
    /\ constructed
    /\ StartNewConversation(conversations)

\* handleSelectConversation on the i-th entry of the sidebar
SelectConversation(i) ==
    /\ constructed
    /\ i \in 1..Len(conversations)
    /\ messages' = conversations[i].messages
    /\ isLoading' = FALSE
    /\ error' = NullError
    /\ currentConversationId' = conversations[i].id
    /\ UserActs
    /\ SaveCurrentConversationEffect
    /\ UNCHANGED <<build, exported, aiModel,
                   conversations, uuidCount, sends, noop>>

\* handleDeleteConversation on the i-th entry of the sidebar
DeleteConversation(i) ==
    /\ constructed
    /\ i \in 1..Len(conversations)
    /\ IF currentConversationId = conversations[i].id
       THEN StartNewConversation(FilterOut(conversations, conversations[i].id))
       ELSE /\ conversations' = FilterOut(conversations, conversations[i].id)
            /\ UserActs
            /\ UNCHANGED <<build, exported, aiModel,
                           messages, isLoading, error, currentConversationId,
                           uuidCount, sends, upserts, stored, noop>>

\* handleClearHistory, confirmed by the user
ClearHistory ==
    /\ constructed
    /\ conversations' = <<>>
    /\ messages' = <<WelcomeMessage(aiModel)>>
    /\ isLoading' = FALSE
    /\ error' = NullError
    /\ currentConversationId' = NoConversation
    /\ UserActs
    /\ SaveCurrentConversationEffect
    /\ UNCHANGED <<build, exported, aiModel,
                   uuidCount, sends, noop>>

\* handleSettingsChange({aiModel: model})
SettingsChange(model) ==
    /\ constructed
    /\ model # aiModel
    /\ aiModel' = model
    /\ UserActs
    /\ UNCHANGED <<build, exported, messages, isLoading,
                   error, conversations, currentConversationId, uuidCount, sends,
                   upserts, stored, noop>>

(***************************************************************************)
(* The application: every handler, over a few prompts and one outcome of   *)
(* each kind of network attempt.                                           *)
(***************************************************************************)
AppPrompts == { <<"H", "i">>, <<"z">> }

AppOutcomes ==
    { [kind |-> "transport"],
      [kind |-> "http", payload |-> [body |-> "nomessage"]],
      [kind |-> "ok", gen |-> "reply"] }

Next ==
    \/ \E t \in AppPrompts : ChatInputSend(t)
    \/ Regenerate
    \/ Retry
    \/ \E i \in 1..Len(sends) : \E o \in AppOutcomes : AttemptCompletes(i, o)
    \/ \E i \in 1..Len(sends) : TimerFires(i)
    \/ NewConversation
    \/ \E i \in 1..Len(conversations) : SelectConversation(i)
    \/ \E i \in 1..Len(conversations) : DeleteConversation(i)
    \/ ClearHistory
    \/ \E m \in {"gemini", "gpt", "claude"} : SettingsChange(m)

Spec == Init /\ [][Next]_vars

(***************************************************************************)
(* The providers: generateResponse called from the chat input, over every  *)
(* prompt and every outcome of every network attempt.                      *)
(***************************************************************************)
\* number of generateResponse calls in a run of SpecProviders
MaxCalls == 1

ProviderCall(messageText) ==
    /\ Len(sends) < MaxCalls
    /\ ChatInputSend(messageText)

NextProviders ==
    \/ \E t \in Prompts : ProviderCall(t)
    \/ \E i \in 1..Len(sends) : \E o \in Outcomes : AttemptCompletes(i, o)
    \/ \E i \in 1..Len(sends) : TimerFires(i)
    \/ \E m \in {"gemini", "gpt", "claude"} : SettingsChange(m)

SpecProviders == Init /\ [][NextProviders]_vars

(***************************************************************************)
(* The sidebar: conversations saved, opened again, continued and saved     *)
(* again, with prompts at and over the length a title is cut to, started   *)
(* with nothing stored or with a conversation of an earlier session.       *)
(***************************************************************************)
LongPrompt(n) == [k \in 1..n |-> "a"]

TitlePrompts == { <<"z">>, LongPrompt(TitleLimit), LongPrompt(TitleLimit + 1) }

\* what loadConversations returns: nothing, or one conversation an earlier
\* session saved
StoredConversations ==
    { <<>>,
      << [id |-> 1,
          title |-> SubSeq(LongPrompt(TitleLimit + 1), 1, TitleLimit) \o <<"...">>,
          messages |-> << WelcomeMessage("gemini"),
                          Message(-1, "user", LongPrompt(TitleLimit + 1), NoModel),
                          Message(-2, "ai", Reply, GeminiName) >>] >> }

\* the ways a call ends that the sidebar can tell apart: an answer, a failure
TitleOutcomes ==
    { [kind |-> "transport"],
      [kind |-> "ok", gen |-> "reply"] }

InitTitles ==
    /\ svc = SvcApp
    /\ geminiKey = TRUE
    /\ openaiKey = FALSE
    /\ claudeKey = FALSE
    /\ persistHistory = FALSE
    /\ \E loaded \in StoredConversations : StartedWith(loaded)

NextTitles ==
    \/ \E t \in TitlePrompts : ChatInputSend(t)
    \/ Regenerate
    \/ Retry
    \/ \E i \in 1..Len(sends) : \E o \in TitleOutcomes : AttemptCompletes(i, o)
    \/ NewConversation
    \/ \E i \in 1..Len(conversations) : SelectConversation(i)
    \/ \E i \in 1..Len(conversations) : DeleteConversation(i)
    \/ ClearHistory

SpecTitles == InitTitles /\ [][NextTitles]_vars

(***************************************************************************)
(* The handlers of the chat as functions: handleRegenerate called on the   *)
(* history as it is, by whoever holds the function, and not only from the  *)
(* button the render puts on a last assistant message.                     *)
(***************************************************************************)
NextHandlers ==
    \/ \E t \in AppPrompts : ChatInputSend(t)
    \/ HandleRegenerate
    \/ \E i \in 1..Len(sends) : \E o \in TitleOutcomes : AttemptCompletes(i, o)

SpecHandlers == Init /\ [][NextHandlers]_vars

(***************************************************************************)
(* The catch blocks of the keyed providers: upstream messages that hold    *)
(* one phrase, two phrases in either order, or none, with every key set.   *)
(***************************************************************************)
\* the phrases the catch blocks look for, and one none of them looks for
UpstreamPhrases ==
    { "API key not valid", "quota", "Failed to fetch", "Incorrect API key",
      "overloaded" }

\* upstream error messages of one or two phrases
UpstreamMessages ==
    { <<a>> : a \in UpstreamPhrases }
    \cup { <<a, " ", b>> : a \in UpstreamPhrases, b \in UpstreamPhrases }

\* the attempts that end in the catch block with an upstream message: fetch
\* rejects, or a non-success status carries error.message
UpstreamFailures ==
    { [kind |-> "transport"] }
    \cup { [kind |-> "http", payload |-> [body |-> "message", message |-> m]] :
             m \in UpstreamMessages }

InitRemap ==
    /\ svc \in {SvcChains, SvcClientKeyed}
    /\ geminiKey = TRUE
    /\ openaiKey = (svc = SvcClientKeyed)
    /\ claudeKey = (svc = SvcClientKeyed)
    /\ persistHistory = FALSE
    /\ Started

NextRemap ==
    \/ \E t \in AppPrompts : ProviderCall(t)
    \/ \E i \in 1..Len(sends) : \E o \in UpstreamFailures : AttemptCompletes(i, o)
    \/ \E m \in {"gemini", "gpt"} : SettingsChange(m)

SpecRemap == InitRemap /\ [][NextRemap]_vars

(***************************************************************************)
(* The export of conversations saved at different times, some removed      *)
(* from the sidebar before the export, under each model setting.           *)
(***************************************************************************)
\* the times of the clock
Clock == 1..2

\* handleNewConversation's conversation object saved at a time, with the
\* messages made one tick before it
TimedConversation(id, msgs, time) ==
    [id |-> id, title |-> generateConversationTitle(msgs),
     messages |-> [k \in 1..Len(msgs) |-> TimedMessage(msgs[k], time - 1)],
     createdAt |-> Date(time), updatedAt |-> Date(time)]

\* the histories of the saved conversations
ExportedHistories ==
    { <<WelcomeMessage("gemini")>>,
      <<WelcomeMessage("gemini"),
        Message(-1, "user", <<"z">>, NoModel),
        Message(-2, "ai", Reply, GeminiName)>> }

\* the conversation lists of the sidebar: none, one, or two conversations
ExportedLists ==
    {<<>>}
    \cup { <<TimedConversation(1, h, t)>> : h \in ExportedHistories, t \in Clock }
    \cup { <<TimedConversation(2, h, 2), TimedConversation(1, g, 1)>> :
             h \in ExportedHistories, g \in ExportedHistories }

InitExport ==
    /\ svc = SvcApp
    /\ geminiKey = TRUE
    /\ openaiKey = FALSE
    /\ claudeKey = FALSE
    /\ persistHistory = FALSE
    /\ \E loaded \in ExportedLists : StartedWith(loaded)

NextExport ==
    \/ \E now \in Clock : HandleExportData(now)
    \/ \E m \in {"gemini", "gpt", "claude"} : SettingsChange(m)
    \/ \E i \in 1..Len(conversations) : DeleteConversation(i)

SpecExport == InitExport /\ [][NextExport]_vars

(***************************************************************************)
(* History kept: every new messages array is handed to                     *)
(* saveCurrentConversation, whose requests are answered whenever the       *)
(* network and the database get to them.                                   *)
(***************************************************************************)
InitPersistence ==
    /\ svc \in Services
    /\ geminiKey = TRUE
    /\ openaiKey = FALSE
    /\ claudeKey = FALSE
    /\ persistHistory = TRUE
    /\ Started

UpsertReturns ==
    /\ \E k \in 1..Len(upserts) : UpsertApplied(k) \/ UpsertFails(k)
    /\ UNCHANGED <<build, exported, aiModel, messages, isLoading, error, conversations,
                   currentConversationId, uuidCount, sends, noop, events>>

\* a message typed while fewer than MaxCalls have been sent
PersistedSend(messageText) ==
    /\ Len(sends) < MaxCalls
    /\ ChatInputSend(messageText)

NextPersistence ==
    \/ \E t \in AppPrompts : PersistedSend(t)
    \/ \E i \in 1..Len(sends) : \E o \in AppOutcomes : AttemptCompletes(i, o)
    \/ UpsertReturns

SpecPersistence == InitPersistence /\ [][NextPersistence]_vars

(***************************************************************************)
(* The rule-based strategies: prompts that match each keyword category,    *)
(* two categories at once, and none.                                       *)
(***************************************************************************)
FallbackPrompts ==
    { <<"h","e","l","l","o">>,
      <<"H","i">>,
      <<"h","i"," ","h","e","l","p">>,
      <<"w","h","y">>,
      <<"t","h","a","n","k">>,
      <<"c","o","d","e"," ","1","+","2">>,
      <<"1","+","2">>,
      <<"w","h","a","t"," ","i","s">>,
      <<"s","t","o","r","y">>,
      <<"z">> }

NextFallbacks ==
    \/ \E t \in FallbackPrompts : ProviderCall(t)
    \/ \E i \in 1..Len(sends) : \E o \in AppOutcomes : AttemptCompletes(i, o)
    \/ \E i \in 1..Len(sends) : TimerFires(i)
    \/ \E m \in {"gemini", "gpt", "claude"} : SettingsChange(m)

SpecFallbacks == Init /\ [][NextFallbacks]_vars

(***************************************************************************)
(* The registry: every version of the service with every combination of   *)
(* the keys it reads.                                                      *)
(***************************************************************************)
\* the keys a version of the service reads
KeysRead(service) ==
    CASE service \in Services -> {"gemini"}
      [] service = SvcClientFree -> {"gemini", "claude"}
      [] service = SvcClientKeyed -> {"gemini", "openai", "claude"}

InitRegistry ==
    /\ svc \in AllServices
    /\ geminiKey \in BOOLEAN
    /\ openaiKey \in BOOLEAN
    /\ claudeKey \in BOOLEAN
    /\ openaiKey => "openai" \in KeysRead(svc)
    /\ claudeKey => "claude" \in KeysRead(svc)
    /\ persistHistory = FALSE
    /\ Started

NextRegistry ==
    \/ \E t \in AppPrompts : ProviderCall(t)
    \/ \E i \in 1..Len(sends) : \E o \in Outcomes : AttemptCompletes(i, o)
    \/ \E i \in 1..Len(sends) : TimerFires(i)
    \/ \E m \in {"gemini", "gpt", "claude"} : SettingsChange(m)

SpecRegistry == InitRegistry /\ [][NextRegistry]_vars

(***************************************************************************)
(* The contextual message: the first message of a session sent with       *)
(* attachments, over every list of a few attachments.                      *)
(***************************************************************************)
\* number of attachments of a message
MaxAttachments == 2

\* the files a user attaches: text files with content, with empty content and
\* without content, an image without content and with base64 content, and a
\* file of another type with content
Attachments ==
    { Attachment("a.txt", <<"text/", "plain">>, Content(<<"X">>)),
      Attachment("b.txt", <<"text/", "plain">>, Content(<<>>)),
      Attachment("c.txt", <<"text/", "plain">>, NoContent),
      Attachment("a.png", <<"image/", "png">>, NoContent),
      Attachment("b.png", <<"image/", "png">>, Content(<<"iVBORw0KGgo=">>)),
      Attachment("a.json", <<"application/", "json">>, Content(<<"{}">>)) }

AttachmentLists == UNION { [1..n -> Attachments] : n \in 0..MaxAttachments }

AttachedCall(messageText, attachments) ==
    /\ sends = <<>>
    /\ ChatInputSendAttached(messageText, attachments)

NextAttachments ==
    \/ \E t \in AppPrompts : \E a \in AttachmentLists : AttachedCall(t, a)
    \/ \E i \in 1..Len(sends) : \E o \in AppOutcomes : AttemptCompletes(i, o)
    \/ \E i \in 1..Len(sends) : TimerFires(i)
    \/ \E m \in {"gemini", "gpt", "claude"} : SettingsChange(m)

SpecAttachments == Init /\ [][NextAttachments]_vars

(***************************************************************************)
(* Properties.                                                             *)
(***************************************************************************)
\* keys a caller may ask the registry for: the known ones and an unknown one
ProbeKeys == {"gemini", "gpt", "claude", "llama"}

Listed(key) ==
    \E j \in 1..Len(getAvailableModels(svc, providers)) :
        getAvailableModels(svc, providers)[j].key = key

\* send i is not settled before the step and is settled after it
SendCompletes(i) ==
    /\ i \in 1..Len(sends')
    /\ ~Outstanding(sends'[i])
    /\ i > Len(sends) \/ Outstanding(sends[i])

\* the step appends exactly one message, an assistant message
AiMessageAppended ==
    /\ Len(messages') = Len(messages) + 1
    /\ SubSeq(messages', 1, Len(messages)) = messages
    /\ messages'[Len(messages')].type = "ai"

\* the step appends no assistant message
NoAiMessageAppended ==
    \A k \in 1..Len(messages') :
        messages'[k].type = "ai" => \E j \in 1..Len(messages) : messages[j] = messages'[k]

MultiStrategy(service, key) == Len(Strategies(service, key)) > 1

\* the strategy after stage in the provider's chain, "none" after the last
NextStrategy(service, key, stage) ==
    LET chain == Strategies(service, key)
        k == CHOOSE k \in 1..Len(chain) : chain[k] = stage
    IN  IF k < Len(chain) THEN chain[k + 1] ELSE "none"

\* C1: constructing the registry succeeds for every combination of present
\* and absent credentials: a provider whose constructor throws is left out
\* and the others are registered.
C1_ConstructionNeverFails ==
    /\ constructed
    /\ \A k \in {"gemini", "gpt", "claude"} :
          Has(providers, k) <=> ~ProviderConstructorThrows(svc, k, Environment)

\* C2: a key absent from the mapping is not listed by getAvailableModels and
\* getProvider fails for it with an error whose message names the key; for a
\* key present getProvider returns the provider registered under it.
C2_AbsentKeyUnavailable ==
    constructed =>
        \A key \in ProbeKeys :
            IF Has(providers, key)
            THEN /\ ~getProvider(svc, providers, key).threw
                 /\ getProvider(svc, providers, key).provider = key
                 /\ Listed(key)
            ELSE /\ ~Listed(key)
                 /\ getProvider(svc, providers, key).threw
                 /\ Includes(getProvider(svc, providers, key).message, <<key>>)

\* a send asked for the key the registry left out, and its catch block shows
\* the error naming that key
C2_Witness ==
    /\ constructed
    /\ ~Has(providers, "gemini")
    /\ Has(providers, "gpt")
    /\ \E i \in 1..Len(sends) :
          /\ sends[i].key = "gemini"
          /\ sends[i].result = NotCalled
          /\ error = ErrorOf(NotAvailableMessage(svc, "gemini"))

\* C3: generateResponse of the providers whose chain ends in the rule-based
\* strategy resolves with a text and never rejects, whatever the prompt and
\* the outcome of each network attempt.
C3_RuleBasedChainsResolve ==
    \A i \in 1..Len(sends) :
        (svc = SvcChains /\ sends[i].key \in {"gpt", "claude"}) =>
            /\ sends[i].result.status \in {"pending", "resolved"}
            /\ Outstanding(sends[i]) =>
                  /\ sends[i].result.status = "pending"
                  /\ sends[i].stage \in NetworkStrategies
            /\ ~Outstanding(sends[i]) =>
                  /\ sends[i].result.status = "resolved"
                  /\ sends[i].result.text # <<>>
                  /\ sends[i].outcome = "success"

\* both network attempts of the Claude chain failed and the rule-based
\* strategy gave the text
C3_Witness ==
    \E i \in 1..Len(sends) :
        /\ svc = SvcChains
        /\ sends[i].key = "claude"
        /\ sends[i].attempts = <<"groq", "hf", "rule">>
        /\ sends[i].result = Resolved(generateSmartFallback(sends[i].text))

\* C4: in a provider with more than one strategy, an attempt that ends
\* without a text (non-success status, transport error, malformed payload)
\* makes the next strategy of the chain the one attempted and surfaces no
\* failure; a call is rejected only after the last strategy of its chain.
C4_FailureAdvancesChain ==
    /\ [][\A i \in 1..Len(sends) : \A o \in Outcomes :
            ( /\ Outstanding(sends[i])
              /\ MultiStrategy(svc, sends[i].key)
              /\ Failed(o)
              /\ AttemptCompletes(i, o) )
            => /\ sends'[i].attempts =
                      Append(sends[i].attempts,
                             NextStrategy(svc, sends[i].key, sends[i].stage))
               /\ sends'[i].result.status # "rejected"]_vars
    /\ [](\A i \in 1..Len(sends) :
            sends[i].result.status = "rejected" =>
                /\ sends[i].attempts # <<>>
                /\ NextStrategy(svc, sends[i].key,
                                sends[i].attempts[Len(sends[i].attempts)]) = "none")

\* the first strategy of the Claude chain failed, the request of the second
\* is outstanding and nothing was surfaced
C4_Witness ==
    \E i \in 1..Len(sends) :
        /\ sends[i].key = "claude"
        /\ sends[i].stage = "hf"
        /\ sends[i].attempts = <<"groq", "hf">>
        /\ sends[i].result = Pending
        /\ isLoading
        /\ error = NullError

\* C5: handleSendMessage never throws to its caller: a send that fails,
\* because getProvider threw or because generateResponse rejected, completes
\* with the loading flag cleared and the error state set to the message of
\* the error; a thrown value that is no Error gives the generic string.
C5_SendNeverThrows ==
    /\ [][\A i \in 1..Len(sends') :
            SendCompletes(i) =>
                /\ sends'[i].outcome \in {"success", "failure"}
                /\ sends'[i].outcome = "failure" =>
                      /\ ~isLoading'
                      /\ ~error'.null
                      /\ error'.message # <<>>
                      /\ error'.message =
                            IF sends'[i].result = NotCalled
                            THEN NotAvailableMessage(svc, sends'[i].key)
                            ELSE sends'[i].result.message]_vars
    /\ [](SendCatchMessage(NonErrorThrown) = FailedToGetResponse)

\* generateResponse rejected and the error state holds the message of its
\* Error
C5_Witness ==
    \E i \in 1..Len(sends) :
        /\ sends[i].result.status = "rejected"
        /\ sends[i].outcome = "failure"
        /\ error = ErrorOf(sends[i].result.message)
        /\ ~isLoading

\* C6: a send whose provider key the registry cannot resolve fails without
\* generateResponse being called and without a network request.
C6_UnresolvedKeyNoCall ==
    \A i \in 1..Len(sends) :
        ~Has(providers, sends[i].key) =>
            /\ sends[i].outcome = "failure"
            /\ sends[i].result = NotCalled
            /\ sends[i].attempts = <<>>
            /\ ~Outstanding(sends[i])

\* a send was started for a key the registry lacks: its user message is the
\* last of the history and no request was issued
C6_Witness ==
    \E i \in 1..Len(sends) :
        /\ ~Has(providers, sends[i].key)
        /\ sends[i].attempts = <<>>
        /\ messages[Len(messages)].id = UserMessageId(i)
        /\ ~isLoading
        /\ ~error.null

\* C7: every send that completes yields exactly one outcome: an assistant
\* message appended with the error state null, or the error state set with
\* no assistant message appended.
C7_ExactlyOneOutcome ==
    [][\A i \in 1..Len(sends') :
            SendCompletes(i) =>
                \/ AiMessageAppended /\ error' = NullError
                \/ ~error'.null /\ NoAiMessageAppended]_vars

\* C8: at most one send is in flight at any time.
C8_AtMostOneSendInFlight == Cardinality(InFlight) <= 1

\* C9: isLoading is true exactly while a send is outstanding.
C9_LoadingIffOutstanding == isLoading <=> InFlight # {}

\* C10: after a regenerate on a history ending [user m, assistant a] has
\* succeeded, the history ends [user m, new assistant message] and is as long
\* as it was before the regenerate.
C10_RegenerateKeepsLength ==
    \A i \in 1..Len(sends) :
        ( /\ sends[i].origin = "regenerate"
          /\ sends[i].outcome = "success"
          /\ Len(messages) >= 2
          /\ messages[Len(messages)].id = AiMessageId(i)
          /\ messages[Len(messages) - 1].type = "user"
          /\ messages[Len(messages) - 1].text = sends[i].text )
        => Len(messages) = sends[i].base

\* a is an initial part of b
IsPrefix(a, b) == Len(a) <= Len(b) /\ SubSeq(b, 1, Len(a)) = a

\* the text of the user message after which msgs holds no user message
MostRecentUserText(msgs) ==
    LET k == CHOOSE k \in 1..Len(msgs) :
                /\ msgs[k].type = "user"
                /\ \A j \in 1..Len(msgs) : msgs[j].type = "user" => j <= k
    IN  msgs[k].text

\* C11: regenerate on a history with no user message changes nothing: the
\* message sequence, the loading flag and the error state stay as they are
\* and no send is started, so no provider is called.
C11_RegenerateWithoutUserMessage ==
    [][(Regenerate /\ \A k \in 1..Len(messages) : messages[k].type # "user")
          => UNCHANGED <<messages, isLoading, error, sends>>]_vars

\* regenerate was asked for on a history of two assistant messages, the
\* welcome message and a late response, and returned without acting
C11_Witness ==
    /\ noop = "regenerate"
    /\ Len(messages) = 2
    /\ \A k \in 1..Len(messages) : messages[k].type = "ai"
    /\ ~isLoading
    /\ InFlight = {}

\* C12: retry on a history with a user message appends a user message with
\* the text of the most recent one to the unchanged history and starts a
\* send with that text and no attachments; the error state is null after it
\* unless that send failed at once.  Retry on a history with no user message
\* changes nothing.
C12_RetryResends ==
    [][Retry =>
          IF \E k \in 1..Len(messages) : messages[k].type = "user"
          THEN /\ Len(messages') = Len(messages) + 1
               /\ IsPrefix(messages, messages')
               /\ messages'[Len(messages')].type = "user"
               /\ messages'[Len(messages')].text = MostRecentUserText(messages)
               /\ Len(sends') = Len(sends) + 1
               /\ sends'[Len(sends')].prompt = MostRecentUserText(messages)
               /\ sends'[Len(sends')].text = MostRecentUserText(messages)
               /\ IF Outstanding(sends'[Len(sends')])
                  THEN error' = NullError /\ isLoading'
                  ELSE error' = ErrorOf(NotAvailableMessage(svc, aiModel))
          ELSE UNCHANGED <<messages, isLoading, error, sends>>]_vars

\* a retry after a failed send of the second prompt of the conversation: the
\* prompt was sent again, nothing was removed and the error is cleared
C12_Witness ==
    \E i \in 1..Len(sends) :
        /\ sends[i].origin = "retry"
        /\ Outstanding(sends[i])
        /\ Len(messages) = sends[i].base + 1
        /\ messages[Len(messages)].id = UserMessageId(i)
        /\ \E k \in 1..Len(messages) :
              messages[k].type = "user" /\ messages[k].text # sends[i].text
        /\ error = NullError
        /\ isLoading

\* an attachment of a text type that carries content
Textual(att) ==
    /\ att.type # <<>>
    /\ att.type[1] = "text/"
    /\ att.content.defined
    /\ Len(att.content.text) > 0

\* the lines a block takes: a title line and the content, or a reference
\* line of the name and the type
BlockLength(att) ==
    IF Textual(att) THEN 3 + Len(att.content.text) ELSE 4 + Len(att.type)

\* where the block of the k-th attachment starts in the contextual message:
\* after the prompt and the header, each block one separator after the last
RECURSIVE BlockStart(_, _, _)
BlockStart(prompt, atts, k) ==
    IF k = 1 THEN Len(prompt) + 2
    ELSE BlockStart(prompt, atts, k - 1) + BlockLength(atts[k - 1]) + 1

\* C13: the text given to generateResponse for a send with attachments is
\* the prompt, then the constant header, then one block per attachment in
\* the order of the attachments, separated by blank lines; the block of a
\* textual attachment with content holds that content literally, after the
\* prompt.
C13_PromptThenBlocks ==
    \A i \in 1..Len(sends) :
        LET p == sends[i].prompt
            a == sends[i].attachments
            t == sends[i].text
        IN  Len(a) > 0 =>
              /\ IsPrefix(p \o <<"\n\nAttached files:\n">>, t)
              /\ Len(t) = BlockStart(p, a, Len(a)) + BlockLength(a[Len(a)]) - 1
              /\ \A k \in 1..Len(a) :
                    LET b == BlockStart(p, a, k) IN
                    /\ t[b + 1] = a[k].name
                    /\ k > 1 => t[b - 1] = "\n\n"
                    /\ Textual(a[k]) =>
                          /\ t[b] = "File \""
                          /\ t[b + 2] = "\" content:\n"
                          /\ SubSeq(t, b + 3, b + 2 + Len(a[k].content.text))
                                = a[k].content.text
                          /\ b + 3 > Len(p)

\* a prompt was sent with an image and then a text file: the text given to
\* the provider is the prompt, the header, the reference to the image and
\* the content of the text file, and the provider answered
C13_Witness ==
    \E i \in 1..Len(sends) :
        /\ sends[i].prompt = <<"H", "i">>
        /\ Len(sends[i].attachments) = 2
        /\ sends[i].attachments[1].name = "a.png"
        /\ sends[i].attachments[2].name = "a.txt"
        /\ sends[i].text =
              <<"H", "i", "\n\nAttached files:\n",
                "File attached: ", "a.png", " (", "image/", "png", ")", "\n\n",
                "File \"", "a.txt", "\" content:\n", "X">>
        /\ sends[i].outcome = "success"

\* C14: an attachment that is not of a text type, or has no content or an
\* empty one, gives only the reference line of its name and type; content it
\* carries is not in the text given to generateResponse.
C14_ReferenceOnly ==
    \A i \in 1..Len(sends) :
        LET p == sends[i].prompt
            a == sends[i].attachments
            t == sends[i].text
        IN  \A k \in 1..Len(a) :
              ~Textual(a[k]) =>
                /\ BlockStart(p, a, k) + BlockLength(a[k]) - 1 <= Len(t)
                /\ SubSeq(t, BlockStart(p, a, k),
                             BlockStart(p, a, k) + BlockLength(a[k]) - 1)
                      = <<"File attached: ", a[k].name, " (">> \o a[k].type \o <<")">>
                /\ ( /\ a[k].content.defined
                     /\ a[k].content.text # <<>>
                     /\ \A j \in 1..Len(a) :
                           Textual(a[j]) => a[j].content.text # a[k].content.text )
                   => ~Includes(t, a[k].content.text)

\* a prompt was sent with an image carrying base64 content and a text file
\* with empty content: both are given as references
C14_Witness ==
    \E i \in 1..Len(sends) :
        /\ Len(sends[i].attachments) = 2
        /\ sends[i].attachments[1] =
              Attachment("b.png", <<"image/", "png">>, Content(<<"iVBORw0KGgo=">>))
        /\ sends[i].attachments[2] =
              Attachment("b.txt", <<"text/", "plain">>, Content(<<>>))
        /\ sends[i].text =
              sends[i].prompt \o
              <<"\n\nAttached files:\n",
                "File attached: ", "b.png", " (", "image/", "png", ")", "\n\n",
                "File attached: ", "b.txt", " (", "text/", "plain", ")">>
        /\ ~Outstanding(sends[i])

\* the place of a key in the order gemini, gpt, claude
Rank(key) ==
    CASE key = "gemini" -> 1
      [] key = "gpt" -> 2
      [] key = "claude" -> 3

\* C15: getAvailableModels returns the keys of the mapping and no others,
\* each once, each with the getName() of its provider, in the order gemini,
\* gpt, claude whichever providers are left out.
C15_AvailableModelsInOrder ==
    constructed =>
        LET listed == getAvailableModels(svc, providers) IN
        /\ \A key \in {"gemini", "gpt", "claude"} :
              Cardinality({ j \in 1..Len(listed) : listed[j].key = key })
                = IF Has(providers, key) THEN 1 ELSE 0
        /\ \A j \in 1..Len(listed) :
              /\ listed[j].key \in {"gemini", "gpt", "claude"}
              /\ listed[j].name = getName(svc, listed[j].key)
        /\ \A j \in 1..Len(listed) : \A k \in 1..Len(listed) :
              j < k => Rank(listed[j].key) < Rank(listed[k].key)

\* the service whose three providers read a key, started without the OpenAI
\* key: gemini and claude are listed in that order, and the user chose
\* claude from the list and got a response
C15_Witness ==
    /\ svc = SvcClientKeyed
    /\ geminiKey /\ ~openaiKey /\ claudeKey
    /\ getAvailableModels(svc, providers) =
          << [key |-> "gemini", name |-> <<"Gemini 1.5 Flash">>],
             [key |-> "claude", name |-> <<"Claude 3">>] >>
    /\ \E i \in 1..Len(sends) :
          /\ sends[i].key = "claude"
          /\ sends[i].outcome = "success"
          /\ messages[Len(messages)].model = <<"Claude 3">>

\* a keyword category: the substrings looked for in the lower-cased prompt,
\* whether an arithmetic pattern counts, and the canned response
Category(keywords, arithmetic, response) ==
    [keywords |-> keywords, arithmetic |-> arithmetic, response |-> response]

GreetingCategory ==
    Category({ <<"h","e","l","l","o">>, <<"h","i">> }, FALSE,
             <<"Hello! How can I help you today?">>)
HelpCategory ==
    Category({ <<"h","e","l","p">> }, FALSE,
             <<"I'm here to help! You can ask me questions about various topics, request explanations, or just chat.">>)
InterrogativeCategory ==
    Category({ <<"w","h","a","t">>, <<"h","o","w">>, <<"w","h","y">> }, FALSE,
             <<"That's an interesting question! While I may not have all the answers, I'd be happy to discuss this topic with you.">>)
ThankCategory ==
    Category({ <<"t","h","a","n","k">> }, FALSE,
             <<"You're welcome! Is there anything else I can help you with?">>)
ProgrammingCategory ==
    Category({ <<"c","o","d","e">>, <<"p","r","o","g","r","a","m">>,
               <<"f","u","n","c","t","i","o","n">> }, FALSE,
             <<"I can help with programming questions! Could you be more specific about what you'd like to build or debug?">>)
ArithmeticCategory ==
    Category({ <<"c","a","l","c","u","l","a","t","e">>, <<"m","a","t","h">> }, TRUE,
             <<"I can help with calculations and math problems. Please provide the specific equation or problem you'd like me to solve.">>)
ExplainCategory ==
    Category({ <<"e","x","p","l","a","i","n">>, <<"w","h","a","t"," ","i","s">>,
               <<"h","o","w"," ","d","o","e","s">> }, FALSE,
             <<"I'd be happy to explain that concept! Could you give me a bit more context about what specific aspect you'd like me to focus on?">>)
WriteCategory ==
    Category({ <<"w","r","i","t","e">>, <<"s","t","o","r","y">>,
               <<"c","r","e","a","t","i","v","e">> }, FALSE,
             <<"I can help with creative writing! What kind of story, article, or content would you like me to help you create?">>)

Matches(category, prompt) ==
    \/ \E kw \in category.keywords :
          \E i \in 1..Len(prompt) :
              /\ i + Len(kw) - 1 <= Len(prompt)
              /\ \A j \in 1..Len(kw) :
                    kw[j] = (IF prompt[i + j - 1] = "H" THEN "h"
                             ELSE IF prompt[i + j - 1] = "I" THEN "i"
                             ELSE prompt[i + j - 1])
    \/ category.arithmetic /\ ArithmeticPattern(prompt)

\* text is what first-match-wins over categories gives for prompt: the
\* response of the first category that matches, or one of the generic
\* responses when none does
FirstMatchWins(categories, generic, prompt, text) ==
    IF \E k \in 1..Len(categories) : Matches(categories[k], prompt)
    THEN \E k \in 1..Len(categories) :
            /\ Matches(categories[k], prompt)
            /\ \A j \in 1..(k - 1) : ~Matches(categories[j], prompt)
            /\ text = categories[k].response
    ELSE text \in generic

\* the send ended in the rule-based strategy of its provider
EndedRuleBased(send) ==
    /\ ~Outstanding(send)
    /\ send.attempts # <<>>
    /\ send.attempts[Len(send.attempts)] = "rule"

\* C16 as stated: every rule-based strategy checks the eight categories in
\* the one order greeting, help, interrogative, thank, programming,
\* arithmetic, explain, write; the first that matches gives the response, a
\* generic response is given when none matches, and 'hello' gives the
\* greeting.
C16_OneOrderedList ==
    \A i \in 1..Len(sends) :
        EndedRuleBased(sends[i]) =>
            /\ FirstMatchWins(<<GreetingCategory, HelpCategory, InterrogativeCategory,
                                ThankCategory, ProgrammingCategory, ArithmeticCategory,
                                ExplainCategory, WriteCategory>>,
                              {GPTGeneric, SmartGeneric},
                              sends[i].text, sends[i].result.text)
            /\ sends[i].text = <<"h","e","l","l","o">> =>
                  sends[i].result.text = <<"Hello! How can I help you today?">>

\* C16 amended: each provider's rule-based strategy checks its own
\* categories in its own order, first match wins: the GPT provider's checks
\* greeting, help, interrogative, thank; the Claude provider's checks
\* programming, arithmetic, explain, write; each gives its own generic
\* response when none matches, and 'hello' gives the greeting in the GPT
\* provider's.
C16_OrderedListPerProvider ==
    \A i \in 1..Len(sends) :
        EndedRuleBased(sends[i]) =>
            /\ sends[i].result.status = "resolved"
            /\ sends[i].key = "gpt" =>
                  /\ FirstMatchWins(<<GreetingCategory, HelpCategory,
                                      InterrogativeCategory, ThankCategory>>,
                                    {GPTGeneric},
                                    sends[i].text, sends[i].result.text)
                  /\ sends[i].text = <<"h","e","l","l","o">> =>
                        sends[i].result.text = <<"Hello! How can I help you today?">>
            /\ sends[i].key = "claude" =>
                  FirstMatchWins(<<ProgrammingCategory, ArithmeticCategory,
                                   ExplainCategory, WriteCategory>>,
                                 {SmartGeneric},
                                 sends[i].text, sends[i].result.text)
            /\ sends[i].key \in {"gpt", "claude"}

\* the Hugging Face request of the GPT provider failed for a prompt that
\* holds both 'hi' and 'help', and the greeting was given
C16_Witness ==
    \E i \in 1..Len(sends) :
        /\ sends[i].key = "gpt"
        /\ sends[i].text = <<"h","i"," ","h","e","l","p">>
        /\ sends[i].attempts = <<"hf", "rule">>
        /\ sends[i].result = Resolved(<<"Hello! How can I help you today?">>)
        /\ messages[Len(messages)].text = <<"Hello! How can I help you today?">>

\* a step of handleSendMessage called from the chat input, or of its
\* continuation when generateResponse settles
SendStep ==
    \/ \E t \in Prompts : ChatInputSend(t)
    \/ \E i \in 1..Len(sends) : \E o \in Outcomes : AttemptCompletes(i, o)
    \/ \E i \in 1..Len(sends) : TimerFires(i)

\* C17: a send and a retry leave every message of the history in place and
\* only append; a regenerate leaves every message but the last in place,
\* removes the last one, an assistant message, and only appends after it.
C17_AppendOnly ==
    [][/\ (SendStep \/ Retry) => IsPrefix(messages, messages')
       /\ Regenerate =>
             \/ messages' = messages
             \/ /\ messages[Len(messages)].type = "ai"
                /\ Len(messages') >= Len(messages) - 1
                /\ \A k \in 1..(Len(messages) - 1) : messages'[k] = messages[k]]_vars

\* a regenerate on a history of the welcome message, a prompt and its
\* response: the response is gone, the messages before it are in place and
\* the prompt was appended again
C17_Witness ==
    \E i \in 1..Len(sends) :
        /\ sends[i].origin = "regenerate"
        /\ sends[i].base = 3
        /\ Len(messages) = 3
        /\ messages[1].id = 0
        /\ messages[2].type = "user"
        /\ messages[3].id = UserMessageId(i)
        /\ \A k \in 1..Len(messages) : messages[k].type = "ai" => k = 1

\* what the getName() of some provider returns
DisplayNames ==
    { getName(service, key) : service \in AllServices, key \in {"gemini", "gpt", "claude"} }

\* the assistant messages of the history, of the saved conversations and of
\* the stored row
AssistantMessages ==
    { messages[k] : k \in { k \in 1..Len(messages) : messages[k].type = "ai" } }
    \cup UNION { { conversations[c].messages[k] :
                     k \in { k \in 1..Len(conversations[c].messages) :
                                conversations[c].messages[k].type = "ai" } } :
                 c \in 1..Len(conversations) }
    \cup (IF stored.present
          THEN { stored.messages[k] :
                   k \in { k \in 1..Len(stored.messages) : stored.messages[k].type = "ai" } }
          ELSE {})

\* C19: the model field of every assistant message, in the history and in
\* what is saved, is a display name returned by getName() and never a
\* provider key.
C19_ModelIsDisplayName ==
    \A m \in AssistantMessages :
        /\ m.model \in DisplayNames
        /\ m.model \notin { <<"gemini">>, <<"gpt">>, <<"claude">> }

\* the text of the user message before which msgs holds no user message
EarliestUserText(msgs) ==
    LET k == CHOOSE k \in 1..Len(msgs) :
                /\ msgs[k].type = "user"
                /\ \A j \in 1..Len(msgs) : msgs[j].type = "user" => k <= j
    IN  msgs[k].text

\* the title of every saved conversation that holds a user message is the
\* text of its first user message, whole when it has at most 30 characters
\* and cut to 30 characters with an ellipsis after them otherwise
TitlesDerived ==
    \A c \in 1..Len(conversations) :
        (\E k \in 1..Len(conversations[c].messages) :
              conversations[c].messages[k].type = "user")
        => LET text == EarliestUserText(conversations[c].messages) IN
           conversations[c].title =
              IF Len(text) <= 30 THEN text ELSE SubSeq(text, 1, 30) \o <<"...">>

\* C18 as stated: the title is derived from the first user message, and a
\* conversation kept in the list under its id through a step has the same
\* title after it.
C18_TitleImmutable ==
    /\ []TitlesDerived
    /\ [][\A c \in 1..Len(conversations) : \A d \in 1..Len(conversations') :
             conversations[c].id = conversations'[d].id
             => conversations'[d].title = conversations[c].title]_vars

\* C18 amended: the title is derived from the first user message, and a
\* conversation saved with a user message in it keeps its title through
\* every later save under its id; one saved without a user message is
\* titled 'New Conversation' until a save finds a user message in it.
C18_TitleImmutableOnceDerived ==
    /\ []TitlesDerived
    /\ [][\A c \in 1..Len(conversations) : \A d \in 1..Len(conversations') :
             conversations[c].id = conversations'[d].id
             => IF \E k \in 1..Len(conversations[c].messages) :
                      conversations[c].messages[k].type = "user"
                THEN conversations'[d].title = conversations[c].title
                ELSE /\ conversations[c].title = <<"New Conversation">>
                     /\ \/ conversations'[d].title = <<"New Conversation">>
                        \/ \E k \in 1..Len(conversations'[d].messages) :
                              conversations'[d].messages[k].type = "user"]_vars

\* the conversation of the earlier session, whose first prompt is longer
\* than 30 characters, was opened, continued and saved again: it holds the
\* new messages under the title it had
C18_Witness ==
    \E c \in 1..Len(conversations) :
        /\ conversations[c].id = 1
        /\ Len(conversations[c].messages) > 3
        /\ conversations[c].messages[2].id = -1
        /\ \E k \in 4..Len(conversations[c].messages) :
              /\ conversations[c].messages[k].type = "user"
              /\ conversations[c].messages[k].text = <<"z">>
        /\ Len(conversations[c].title) = 31
        /\ conversations[c].title[31] = "..."
        /\ currentConversationId = NoConversation

\* no saveCurrentConversation request is on its way
NoUpsertInFlight == \A k \in 1..Len(upserts) : upserts[k].status # "sent"

C21_ExportRoundTrips ==
    [][exported' # exported
       => /\ JSONParse(exported'.text).conversations = conversations
          /\ JSONParse(exported'.text).settings = Settings]_vars

\* whether the provider a service registers under key reads a credential,
\* and whether that credential was set when the application was built
ReadsCredential(service, key) ==
    \/ key = "gemini"
    \/ key = "gpt" /\ service = SvcClientKeyed
    \/ key = "claude" /\ service \in {SvcClientFree, SvcClientKeyed}

CredentialSet(key) ==
    \/ key = "gemini" /\ geminiKey
    \/ key = "gpt" /\ openaiKey
    \/ key = "claude" /\ claudeKey

\* the mapping holds the keys of the providers that were constructed: a
\* provider that reads a credential if and only if the credential was set,
\* a provider that reads none always, and no key twice
RegistryOfConstructed ==
    constructed =>
        /\ \A key \in {"gemini", "gpt", "claude"} :
              Has(providers, key)
                <=> (ReadsCredential(svc, key) => CredentialSet(key))
        /\ \A j \in 1..Len(providers) : \A k \in 1..Len(providers) :
              providers[j] = providers[k] => j = k
        /\ \A j \in 1..Len(providers) : providers[j] \in {"gemini", "gpt", "claude"}

\* C22: the mapping is fixed at construction: it holds exactly the providers
\* whose constructors completed, and no step of the service (a lookup, a
\* listing, a call that fails) adds, removes or replaces an entry.
C22_RegistryFixed ==
    /\ []RegistryOfConstructed
    /\ [][providers' = providers /\ constructed' = constructed]_vars

\* a service built without the OpenAI key has no gpt entry; a lookup of gpt
\* threw, or a call to a registered provider failed, and the mapping is as
\* it was built
C22_Witness ==
    /\ svc = SvcClientKeyed
    /\ geminiKey /\ ~openaiKey /\ claudeKey
    /\ providers = <<"gemini", "claude">>
    /\ \E i \in 1..Len(sends) :
          /\ sends[i].outcome = "failure"
          /\ sends[i].key = "claude"
          /\ sends[i].attempts # <<>>

\* attempts lists the first strategies of chain in the order of chain
IsChainPrefix(attempts, chain) ==
    /\ Len(attempts) <= Len(chain)
    /\ \A k \in 1..Len(attempts) : attempts[k] = chain[k]

\* an attempt of send's outstanding strategy that ends with outcome gave a
\* text, and the text it gave
Succeeds(send, outcome) ==
    /\ outcome.kind = "ok"
    /\ \/ send.stage = "groq"
       \/ send.key = "gpt"
       \/ StripPrompt(send.text, GeneratedText(send.text, outcome.gen)) # <<>>

TextOfStrategy(send, outcome) ==
    LET generated == GeneratedText(send.text, outcome.gen) IN
    IF send.stage = "groq" THEN generated
    ELSE IF StripPrompt(send.text, generated) # <<>>
         THEN StripPrompt(send.text, generated)
         ELSE GPTRephrase

\* C23: within one call the strategies of a chain run one after the other
\* in the order of the chain: the only request outstanding is the one of the
\* last strategy begun, a strategy is begun only in the step in which the
\* attempt of the one before it completes without a text, and an attempt
\* that gives a text ends the call with that text and no further strategy.
C23_StrategiesInSequence ==
    /\ [](\A i \in 1..Len(sends) :
            /\ IsChainPrefix(sends[i].attempts, Strategies(svc, sends[i].key))
            /\ Outstanding(sends[i]) =>
                  /\ sends[i].attempts # <<>>
                  /\ sends[i].stage = sends[i].attempts[Len(sends[i].attempts)]
                  /\ sends[i].result = Pending
            /\ ~Outstanding(sends[i]) => sends[i].result # Pending)
    /\ [][\A i \in 1..Len(sends) :
            /\ sends'[i].attempts # sends[i].attempts =>
                  /\ Outstanding(sends[i])
                  /\ sends[i].stage \in NetworkStrategies
                  /\ \E o \in Outcomes :
                        ~Succeeds(sends[i], o) /\ AttemptCompletes(i, o)
                  /\ sends'[i].attempts =
                        Append(sends[i].attempts,
                               NextStrategy(svc, sends[i].key, sends[i].stage))
            /\ ~Outstanding(sends[i]) => sends'[i] = sends[i]
            /\ \A o \in Outcomes :
                  ( /\ svc = SvcChains
                    /\ sends[i].key \in {"gpt", "claude"}
                    /\ Outstanding(sends[i])
                    /\ Succeeds(sends[i], o)
                    /\ AttemptCompletes(i, o) )
                  => /\ sends'[i].attempts = sends[i].attempts
                     /\ sends'[i].stage = "done"
                     /\ sends'[i].result = Resolved(TextOfStrategy(sends[i], o))]_vars

\* Groq failed, Hugging Face answered: the call ended with that answer and
\* the rule-based strategy was not begun
C23_Witness ==
    \E i \in 1..Len(sends) :
        /\ svc = SvcChains
        /\ sends[i].key = "claude"
        /\ sends[i].attempts = <<"groq", "hf">>
        /\ sends[i].stage = "done"
        /\ sends[i].result = Resolved(Reply)
        /\ messages[Len(messages)].text = Reply

Rule(phrase, message) == [phrase |-> phrase, message |-> message]

GeminiRules ==
    << Rule("API key not valid", <<"Invalid API key. Please check your Gemini API key.">>),
       Rule("quota", <<"API quota exceeded. Please try again later.">>),
       Rule("Failed to fetch", <<"Network error. Please check your internet connection.">>) >>

OpenAIRules ==
    << Rule("Incorrect API key", <<"Invalid OpenAI API key. Please check your API key.">>),
       Rule("quota", <<"OpenAI API quota exceeded. Please try again later.">>) >>

Holds(upstream, phrase) == \E k \in 1..Len(upstream) : upstream[k] = phrase

\* the message of the first rule whose phrase upstream holds, upstream itself
\* when it holds none
Classified(rules, upstream) ==
    IF \E r \in 1..Len(rules) : Holds(upstream, rules[r].phrase)
    THEN rules[CHOOSE r \in 1..Len(rules) :
                 /\ Holds(upstream, rules[r].phrase)
                 /\ \A q \in 1..(r - 1) : ~Holds(upstream, rules[q].phrase)].message
    ELSE upstream

\* the message an attempt that fails hands to the catch block
UpstreamOf(outcome) ==
    IF outcome.kind = "transport" THEN <<"Failed to fetch">>
    ELSE outcome.payload.message

\* C25: the catch block of a keyed provider classifies the upstream message
\* by its ordered rules: the call fails with the message of the first rule
\* whose phrase the upstream message contains (in GeminiProvider 'API key
\* not valid', then 'quota', then 'Failed to fetch'), and with the upstream
\* message unchanged when it contains none.
C25_FirstMatchClassifies ==
    [][\A i \in 1..Len(sends) : \A o \in UpstreamFailures :
          (Outstanding(sends[i]) /\ AttemptCompletes(i, o)) =>
              /\ sends[i].key = "gemini" =>
                    sends'[i].result = Rejected(Classified(GeminiRules, UpstreamOf(o)))
              /\ (sends[i].key = "gpt" /\ svc = SvcClientKeyed) =>
                    sends'[i].result = Rejected(Classified(OpenAIRules, UpstreamOf(o)))]_vars

\* a call to Gemini whose upstream message holds 'API key not valid' failed
\* with the invalid-key message in its place, and that message is shown
C25_Witness ==
    \E i \in 1..Len(sends) :
        /\ sends[i].key = "gemini"
        /\ sends[i].result =
              Rejected(<<"Invalid API key. Please check your Gemini API key.">>)
        /\ error = ErrorOf(<<"Invalid API key. Please check your Gemini API key.">>)

AnthropicRules ==
    << Rule("authentication", <<"Invalid Claude API key. Please check your API key.">>),
       Rule("rate_limit", <<"Claude API rate limit exceeded. Please try again later.">>) >>

\* the rules of the catch block of the provider a service registers under key
RulesOf(key) ==
    CASE key = "gemini" -> GeminiRules
      [] key = "gpt" -> OpenAIRules
      [] key = "claude" -> AnthropicRules

\* C26: a call to a provider that holds a credential, answered with a
\* non-success status, fails with the error message of the payload (as the
\* provider's rules classify it) when the payload carries one, and with a
\* generic message that holds the status code when it carries none or is no
\* JSON at all.
C26_StatusOrVendorMessage ==
    [][\A i \in 1..Len(sends) : \A o \in Outcomes :
          ( /\ Outstanding(sends[i])
            /\ ReadsCredential(svc, sends[i].key)
            /\ o.kind = "http"
            /\ AttemptCompletes(i, o) )
          => /\ sends'[i].result.status = "rejected"
             /\ IF o.payload.body = "message"
                THEN sends'[i].result.message
                        = Classified(RulesOf(sends[i].key), o.payload.message)
                ELSE Holds(sends'[i].result.message, "500")]_vars

\* C27: a success status whose JSON lacks a part of the path the provider
\* reads, at whatever level, makes the call fail with the provider's
\* 'Invalid response format' message and with nothing else.
C27_MalformedIsClassified ==
    [][\A i \in 1..Len(sends) : \A o \in Outcomes :
          ( /\ Outstanding(sends[i])
            /\ ReadsCredential(svc, sends[i].key)
            /\ o.kind \in {"nofield", "partial"}
            /\ AttemptCompletes(i, o) )
          => /\ sends'[i].result.status = "rejected"
             /\ sends'[i].result.message # <<>>
             /\ sends'[i].result.message[1] \in
                   { "Invalid response format from Gemini API",
                     "Invalid response format from OpenAI API",
                     "Invalid response format from Claude API" }]_vars

\* C28: after handleDeleteConversation on a conversation of the sidebar, no
\* conversation with its id is in the list, the open conversation included,
\* after whose deletion a new conversation is started.
C28_DeletedIsGone ==
    [][\A i \in 1..Len(conversations) :
          DeleteConversation(i)
          => /\ \A d \in 1..Len(conversations') :
                   conversations'[d].id # conversations[i].id
             /\ currentConversationId' # conversations[i].id]_vars

\* C29: the assistant message of a send is appended only to the history
\* that holds the user message that send appended, whatever the user did
\* while the call was in flight.
C29_ResponseJoinsItsPrompt ==
    [][\A i \in 1..Len(sends) : \A o \in AppOutcomes :
          (Outstanding(sends[i]) /\ AttemptCompletes(i, o) /\ messages' # messages)
          => \E k \in 1..Len(messages) : messages[k].id = UserMessageId(i)]_vars

\* the ids of a conversation list, in its order
IdsOf(list) == [k \in 1..Len(list) |-> list[k].id]

\* C30: the conversation list never holds two entries with the same id, and
\* a save of the current conversation replaces the entry with its id where
\* it is, or puts a new entry before the others when there is none.
C30_IdsUnique ==
    /\ [](\A c \in 1..Len(conversations) : \A d \in 1..Len(conversations) :
            conversations[c].id = conversations[d].id => c = d)
    /\ [][NewConversation =>
            IF \E c \in 1..Len(conversations) :
                  conversations[c].id = currentConversationId
            THEN /\ IdsOf(conversations') = IdsOf(conversations)
                 /\ \A c \in 1..Len(conversations) :
                       IF conversations[c].id = currentConversationId
                       THEN conversations'[c].messages = messages
                       ELSE conversations'[c] = conversations[c]
            ELSE /\ Len(conversations') = Len(conversations) + 1
                 /\ Tail(conversations') = conversations
                 /\ Head(conversations').messages = messages
                 /\ \A c \in 1..Len(conversations) :
                       conversations[c].id # Head(conversations').id]_vars

\* the conversation of an earlier session, second in the list after a newer
\* one, was opened, continued and saved: it is still second, once, with the
\* new messages
C30_Witness ==
    /\ Len(conversations) = 2
    /\ conversations[1].id = 2
    /\ conversations[2].id = 1
    /\ Len(conversations[2].messages) > 3
    /\ currentConversationId = NoConversation

====
